---- MODULE Spec2Model ----
(***************************************************************************)
(* OCR worker of one-minute-menu: a relational table (ocr_jobs) used as a  *)
(* work queue by worker processes that each run                            *)
(*     run(): load_config; connect; loop { drain with process_once; wait } *)
(* Every worker owns one connection opened with autocommit=False, so the   *)
(* statements it executes accumulate in one open transaction until the     *)
(* worker calls conn.commit() or conn.rollback().  The table is modelled   *)
(* as PostgreSQL READ COMMITTED presents it: db is the committed table,    *)
(* tx[w] the rows written (and therefore row-locked) by w's open           *)
(* transaction.  A step is one SQL statement together with the local code  *)
(* that follows it up to the next statement of another outcome: an         *)
(* exception with the rollback of its handler, the retry decision with its *)
(* commit.  A storage-layer failure may strike at every statement.         *)
(***************************************************************************)
EXTENDS Integers, Sequences, FiniteSets, TLC

\* ---------------------------------------------------------------- bounds
\* worker processes running against the table
NWorkers == 2
\* rows of ocr_jobs under Spec (workers racing through whole cycles)
NJobs == 1
\* rows of ocr_jobs under SpecClaim and SpecSingle
NQueued == 2

\* ------------------------------------------------------ program constants
\* _get_int("WORKER_MAX_RETRIES", 3)
DEFAULT_MAX_RETRIES == 3
\* _get_int("WORKER_POLL_INTERVAL_MS", 5000)
DEFAULT_POLL_INTERVAL_MS == 5000
\* _get_int("WORKER_PROCESSING_TIMEOUT_MS", 60_000)
DEFAULT_PROCESSING_TIMEOUT_MS == 60000

AllWorkers == 1..NWorkers
None == 0
Null == -1

VARIABLES
    db,                 \* committed rows of ocr_jobs: [Jobs -> Row]
    tx,                 \* tx[w][j]: row version written by w's open transaction, or NoWrite
    pc,                 \* position of each worker process in run()/process_once()
    job,                \* process_once's local `job` (None: no job)
    new_count,          \* process_once's local `new_count`
    max_retries,        \* cfg.max_retries
    workers,            \* the worker processes that were started
    log,                \* history: status written by each committed settlement, per job
    env,                \* os.environ after load_dotenv(), under SpecConfig
    cfg                 \* what load_config() returned or raised, under SpecConfig

vars == <<db, tx, pc, job, new_count, max_retries, workers, log, env, cfg>>

\* The ids of the rows of ocr_jobs; no component inserts or deletes rows.
Jobs == DOMAIN db

\* ------------------------------------------------------------------ rows
\* The columns of ocr_jobs the worker writes or orders by.  result /
\* error_message are modelled by whether they are set.
Row(s, rc, res, err, ca) ==
    [status |-> s, retry_count |-> rc, result |-> res, error_message |-> err,
     created_at |-> ca]

NoWrite == Row("nowrite", Null, FALSE, FALSE, 0)

\* ORDER BY created_at ASC: the column as the claim's subquery reads it.
created_at(j) == db[j].created_at

\* COALESCE(retry_count, 0)
COALESCE(rc) == IF rc = Null THEN 0 ELSE rc

\* What a statement of w's connection reads for row j.
View(w, j) == IF tx[w][j] # NoWrite THEN tx[w][j] ELSE db[j]

\* Row j is locked by the open transaction of another connection.
LockedByOther_never(w, j) == FALSE

LockedByOther(w, j) == \E v \in AllWorkers \ {w} : tx[v][j] # NoWrite

NoTx == [j \in Jobs |-> NoWrite]

\* conn.commit(): the transaction's row versions become the committed ones.
Committed(w) == [j \in Jobs |-> View(w, j)]

\* ------------------------------------------------------------ job store
\* SELECT id FROM ocr_jobs WHERE status = 'queued' ... FOR UPDATE SKIP LOCKED
ClaimCandidates_noskip(w) == {j \in Jobs : View(w, j).status = "queued"}

ClaimCandidates_anystatus(w) ==
    {j \in Jobs : View(w, j).status \in {"queued", "failed"} /\ ~LockedByOther(w, j)}

ClaimCandidates(w) ==
    {j \in Jobs : View(w, j).status = "queued" /\ ~LockedByOther(w, j)}

\* ORDER BY created_at ASC ... LIMIT 1
Oldest(S) == CHOOSE j \in S : \A k \in S : created_at(j) <= created_at(k)

\* try_claim_queued_job: the id it returns, None when fetchone() gives no row.
try_claim_queued_job(w) ==
    IF ClaimCandidates(w) = {} THEN None ELSE Oldest(ClaimCandidates(w))

\* UPDATE ocr_jobs SET status = 'processing' WHERE id = (...)
claim_row(row) == [row EXCEPT !.status = "processing"]

\* UPDATE ocr_jobs SET status='completed', result=%s, ... WHERE id=%s
mark_completed(row) == [row EXCEPT !.status = "completed", !.result = TRUE]

\* UPDATE ocr_jobs SET status='failed', error_message=%s WHERE id=%s
mark_failed(row) == [row EXCEPT !.status = "failed", !.error_message = TRUE]

\* UPDATE ocr_jobs SET retry_count = COALESCE(retry_count, 0) + 1 WHERE id = %s
increment_retry_by2(row) == [row EXCEPT !.retry_count = COALESCE(@) + 2]

increment_retry(row) == [row EXCEPT !.retry_count = COALESCE(@) + 1]

\* UPDATE ocr_jobs SET status='queued' WHERE id=%s
requeue_job_touch(row) ==
    [row EXCEPT !.status = "queued", !.created_at = @ + 100]

requeue_job_processing(row) == [row EXCEPT !.status = "processing"]

requeue_job(row) == [row EXCEPT !.status = "queued"]

\* if new_count >= cfg.max_retries
RetryExhausted_gt(n) == n > max_retries

RetryExhausted(n) == n >= max_retries

\* --------------------------------------------------------- configuration
\* An environment maps variable names to values.  A value is a sequence of
\* characters; Unset: the variable is not in the environment (os.getenv
\* returns None).  Connection strings are single opaque tokens.
Unset == <<"None">>

\* a variable that the specification at hand does not follow
NotTracked == <<>>

DigitChars == <<"0", "1", "2", "3", "4", "5", "6", "7", "8", "9">>
IsDigit(c) == \E i \in 1..Len(DigitChars) : DigitChars[i] = c
DigitValue(c) == (CHOOSE i \in 1..Len(DigitChars) : DigitChars[i] = c) - 1

\* str(n) of an int n >= 0
RECURSIVE str(_)
str(n) ==
    IF n < 10 THEN <<DigitChars[n + 1]>>
    ELSE Append(str(n \div 10), DigitChars[(n % 10) + 1])

\* s.strip(): leading and trailing whitespace removed
RECURSIVE strip(_)
strip(s) ==
    IF s # <<>> /\ Head(s) = " " THEN strip(Tail(s))
    ELSE IF s # <<>> /\ s[Len(s)] = " " THEN strip(SubSeq(s, 1, Len(s) - 1))
    ELSE s

\* the digit part of a decimal integer literal: digits, with single
\* underscores between digits
IsIntBody(b) ==
    /\ b # <<>>
    /\ \A i \in 1..Len(b) :
          \/ IsDigit(b[i])
          \/ /\ b[i] = "_"
             /\ i > 1 /\ i < Len(b)
             /\ IsDigit(b[i - 1]) /\ IsDigit(b[i + 1])

RECURSIVE IntBodyValue(_, _)
IntBodyValue(b, acc) ==
    IF b = <<>> THEN acc
    ELSE IF Head(b) = "_" THEN IntBodyValue(Tail(b), acc)
    ELSE IntBodyValue(Tail(b), 10 * acc + DigitValue(Head(b)))

\* int(s) of a str s: <<value>>, or <<>> when int raises ValueError
int(s) ==
    LET t == strip(s)
        signed == t # <<>> /\ Head(t) \in {"+", "-"}
        b == IF signed THEN Tail(t) ELSE t
    IN  IF ~IsIntBody(b) THEN <<>>
        ELSE IF signed /\ Head(t) = "-" THEN <<0 - IntBodyValue(b, 0)>>
        ELSE <<IntBodyValue(b, 0)>>

\* os.getenv(key, default)
getenv(e, key, default) == IF e[key] = Unset THEN default ELSE e[key]

\* a or b, on values that are None or a str
Or(a, b) == IF a \notin {Unset, <<>>} THEN a ELSE b

\* _get_int(env_key, default)
get_int_zero(e, env_key, default) ==
    LET r == int(getenv(e, env_key, str(default)))
    IN  IF r = <<>> THEN 0 ELSE r[1]

get_int(e, env_key, default) ==
    LET r == int(getenv(e, env_key, str(default)))
    IN  IF r = <<>> THEN default ELSE r[1]

\* values of WORKER_USE_NOTIFY that switch NOTIFY on
UseNotifyValues ==
    {<<"1">>, <<"t", "r", "u", "e">>, <<"T", "R", "U", "E">>,
     <<"y", "e", "s">>, <<"Y", "E", "S">>}

\* ocr_worker.config.load_config()
load_config(e) ==
    LET database_url ==
            Or(e["DATABASE_URL"], Or(e["SUPABASE_DB_URL"], Or(e["POSTGRES_URL"], <<>>)))
    IN  IF database_url = <<>> THEN [raised |-> "RuntimeError"]
        ELSE [raised |-> "",
              database_url |-> database_url,
              poll_interval_ms |->
                  get_int(e, "WORKER_POLL_INTERVAL_MS", DEFAULT_POLL_INTERVAL_MS),
              max_retries |-> get_int(e, "WORKER_MAX_RETRIES", DEFAULT_MAX_RETRIES),
              processing_timeout_ms |->
                  get_int(e, "WORKER_PROCESSING_TIMEOUT_MS", DEFAULT_PROCESSING_TIMEOUT_MS),
              use_notify |-> getenv(e, "WORKER_USE_NOTIFY", <<"0">>) \in UseNotifyValues]

\* kiro_ocr_worker.config.load_config()
kiro_load_config(e) ==
    LET database_url == getenv(e, "DATABASE_URL", <<>>)
    IN  IF database_url = <<>> THEN [raised |-> "RuntimeError"]
        ELSE [raised |-> "",
              database_url |-> database_url,
              poll_interval_ms |->
                  get_int(e, "WORKER_POLL_INTERVAL_MS", DEFAULT_POLL_INTERVAL_MS),
              max_retries |-> get_int(e, "WORKER_MAX_RETRIES", DEFAULT_MAX_RETRIES),
              processing_timeout_ms |->
                  get_int(e, "WORKER_PROCESSING_TIMEOUT_MS", DEFAULT_PROCESSING_TIMEOUT_MS)]

\* load_config has not been called
NoConfig == [raised |-> "not called"]

\* ------------------------------------------------------------------ init
\* Rows are created externally in state queued, before the workers start,
\* in id order: row j has created_at = 10 * j.
InitRows(n) ==
    /\ \E rcs \in [1..n -> {Null, 0}] :
          db = [j \in 1..n |-> Row("queued", rcs[j], FALSE, FALSE, 10 * j)]
    /\ tx = [w \in AllWorkers |-> [j \in 1..n |-> NoWrite]]
    /\ job = [w \in AllWorkers |-> None]
    /\ new_count = [w \in AllWorkers |-> 0]
    \* WORKER_MAX_RETRIES, read once by load_config; every worker gets the same
    /\ max_retries \in 0..DEFAULT_MAX_RETRIES
    /\ log = [j \in 1..n |-> <<>>]
    \* the worker specifications draw load_config's outcome directly
    /\ env = NotTracked
    /\ cfg = NoConfig

Init ==
    /\ InitRows(NJobs)
    /\ workers = AllWorkers
    /\ pc = [w \in AllWorkers |-> "load_config"]

\* --------------------------------------------------------------- actions
\* An exception leaves run(): finally conn.close(), and the process ends; the
\* server aborts the connection's open transaction.
Crash(w) ==
    /\ pc' = [pc EXCEPT ![w] = "crashed"]
    /\ tx' = [tx EXCEPT ![w] = NoTx]
    /\ job' = [job EXCEPT ![w] = None]
    /\ new_count' = [new_count EXCEPT ![w] = 0]

\* process_once returns True: its locals go out of scope, run() calls it again.
ReturnTrue_nodrain(w) ==
    /\ pc' = [pc EXCEPT ![w] = "wait"]
    /\ job' = [job EXCEPT ![w] = None]
    /\ new_count' = [new_count EXCEPT ![w] = 0]

ReturnTrue(w) ==
    /\ pc' = [pc EXCEPT ![w] = "claim"]
    /\ job' = [job EXCEPT ![w] = None]
    /\ new_count' = [new_count EXCEPT ![w] = 0]

\* run(): cfg = load_config(); conn = connect(cfg.database_url)
LoadConfig(w) ==
    /\ pc[w] = "load_config"
    /\ \E database_url \in {"", "postgresql://"} :
          pc' = [pc EXCEPT ![w] = IF database_url = "" THEN "config_error" ELSE "claim"]
    /\ UNCHANGED <<db, tx, job, new_count, max_retries, workers, log, env, cfg>>

\* The claim statement, as executed on w's connection.
ClaimStmt(w) ==
    LET j == try_claim_queued_job(w) IN
    /\ job' = [job EXCEPT ![w] = j]
    /\ IF j = None
          THEN /\ pc' = [pc EXCEPT ![w] = "wait"]
               /\ UNCHANGED tx
          ELSE /\ pc' = [pc EXCEPT ![w] = "process"]
               /\ tx' = [tx EXCEPT ![w][j] = claim_row(View(w, j))]

\* process_once: job = dbops.try_claim_queued_job(conn); if not job: return False
TryClaim(w) ==
    /\ pc[w] = "claim"
    /\ ClaimStmt(w)
    /\ UNCHANGED <<db, new_count, max_retries, workers, log, env, cfg>>

\* try_claim_queued_job raises: nothing in process_once or run catches it.
TryClaimRaises(w) ==
    /\ pc[w] = "claim"
    /\ Crash(w)
    /\ UNCHANGED <<db, max_retries, workers, log, env, cfg>>

\* try: fetch_image_bytes; run_document_text_detection; mark_completed; conn.commit()
ProcessCompletes(w) ==
    /\ pc[w] = "process"
    /\ db' = [Committed(w) EXCEPT ![job[w]] = mark_completed(View(w, job[w]))]
    /\ tx' = [tx EXCEPT ![w] = NoTx]
    /\ log' = [log EXCEPT ![job[w]] = Append(@, "completed")]
    /\ ReturnTrue(w)
    /\ UNCHANGED <<max_retries, workers, env, cfg>>

\* An exception inside the try block (fetch, extraction, or mark_completed / commit
\* failing at the storage layer): except Exception as e: conn.rollback().
\* The rollback undoes the claim's update together with the attempt.
ProcessRaises(w) ==
    /\ pc[w] = "process"
    /\ tx' = [tx EXCEPT ![w] = NoTx]
    /\ pc' = [pc EXCEPT ![w] = "increment"]
    /\ UNCHANGED <<db, job, new_count, max_retries, workers, log, env, cfg>>

\* As ProcessRaises, but conn.rollback() (main.py line 21) raises too: that
\* exception is raised inside the except block and leaves run().
RollbackAttemptRaises(w) ==
    /\ pc[w] = "process"
    /\ Crash(w)
    /\ UNCHANGED <<db, max_retries, workers, log, env, cfg>>

\* new_count = dbops.increment_retry(conn, job.id); the UPDATE waits for the row lock
IncrementRetry(w) ==
    /\ pc[w] = "increment"
    /\ ~LockedByOther(w, job[w])
    /\ tx' = [tx EXCEPT ![w][job[w]] = increment_retry(View(w, job[w]))]
    /\ new_count' = [new_count EXCEPT ![w] = increment_retry(View(w, job[w])).retry_count]
    /\ pc' = [pc EXCEPT ![w] = "decide"]
    /\ UNCHANGED <<db, job, max_retries, workers, log, env, cfg>>

\* The row the retry decision writes:
\* if new_count >= cfg.max_retries: mark_failed(...) else: requeue_job(...)
Decision(w) ==
    IF RetryExhausted(new_count[w])
       THEN mark_failed(View(w, job[w]))
       ELSE requeue_job(View(w, job[w]))

\* mark_failed / requeue_job, then conn.commit()  (main.py lines 25-29); return True
CommitDecision(w) ==
    /\ pc[w] = "decide"
    /\ db' = [Committed(w) EXCEPT ![job[w]] = Decision(w)]
    /\ tx' = [tx EXCEPT ![w] = NoTx]
    /\ log' = [log EXCEPT ![job[w]] = Append(@, Decision(w).status)]
    /\ ReturnTrue(w)
    /\ UNCHANGED <<max_retries, workers, env, cfg>>

\* increment_retry, mark_failed / requeue_job or the commit raises:
\* except Exception: conn.rollback(); return True
DecisionRaises(w) ==
    /\ pc[w] \in {"increment", "decide"}
    /\ tx' = [tx EXCEPT ![w] = NoTx]
    /\ ReturnTrue(w)
    /\ UNCHANGED <<db, max_retries, workers, log, env, cfg>>

\* As DecisionRaises, but conn.rollback() (main.py line 31) raises too: the
\* exception leaves run().
RollbackDecisionRaises(w) ==
    /\ pc[w] \in {"increment", "decide"}
    /\ Crash(w)
    /\ UNCHANGED <<db, max_retries, workers, log, env, cfg>>

\* dbops.listen_for_jobs(conn, cfg.poll_interval_ms): LISTEN succeeds; a notify,
\* the timeout or an exception of notifies.get all make the call return
ListenForJobs(w) ==
    /\ pc[w] = "wait"
    /\ pc' = [pc EXCEPT ![w] = "claim"]
    /\ UNCHANGED <<db, tx, job, new_count, max_retries, workers, log, env, cfg>>

\* conn.execute("LISTEN ocr_jobs;") raises: it stands outside the try block
ListenRaises(w) ==
    /\ pc[w] = "wait"
    /\ Crash(w)
    /\ UNCHANGED <<db, max_retries, workers, log, env, cfg>>

InLoop(w) == pc[w] \in {"claim", "process", "increment", "decide", "wait"}

\* except KeyboardInterrupt: return 0; finally: conn.close()
Cancel_bare_except(w) ==
    /\ InLoop(w)
    /\ IF pc[w] = "process"
          THEN /\ pc' = [pc EXCEPT ![w] = "increment"]
               /\ UNCHANGED <<job, new_count>>
          ELSE /\ pc' = [pc EXCEPT ![w] = "stopped"]
               /\ job' = [job EXCEPT ![w] = None]
               /\ new_count' = [new_count EXCEPT ![w] = 0]
    /\ tx' = [tx EXCEPT ![w] = NoTx]
    /\ UNCHANGED <<db, max_retries, workers, log, env, cfg>>

Cancel(w) ==
    /\ InLoop(w)
    /\ pc' = [pc EXCEPT ![w] = "stopped"]
    /\ tx' = [tx EXCEPT ![w] = NoTx]
    /\ job' = [job EXCEPT ![w] = None]
    /\ new_count' = [new_count EXCEPT ![w] = 0]
    /\ UNCHANGED <<db, max_retries, workers, log, env, cfg>>

Next ==
    \/ \E w \in workers : LoadConfig(w)
    \/ \E w \in workers : TryClaim(w)
    \/ \E w \in workers : TryClaimRaises(w)
    \/ \E w \in workers : ProcessCompletes(w)
    \/ \E w \in workers : ProcessRaises(w)
    \/ \E w \in workers : RollbackAttemptRaises(w)
    \/ \E w \in workers : IncrementRetry(w)
    \/ \E w \in workers : CommitDecision(w)
    \/ \E w \in workers : DecisionRaises(w)
    \/ \E w \in workers : RollbackDecisionRaises(w)
    \/ \E w \in workers : ListenForJobs(w)
    \/ \E w \in workers : ListenRaises(w)
    \/ \E w \in workers : Cancel(w)

Spec == Init /\ [][Next]_vars

\* ------------------------------------------------- one worker, several rows
InitSingle ==
    /\ InitRows(NQueued)
    /\ workers = {1}
    /\ pc = [w \in AllWorkers |-> "load_config"]

SpecSingle == InitSingle /\ [][Next]_vars

\* ------------------------------------- concurrent claim calls on queued rows
\* N callers, each on its own connection, call try_claim_queued_job against M
\* queued rows, and commit when they choose to.
InitClaim ==
    /\ InitRows(NQueued)
    /\ workers = AllWorkers
    /\ pc = [w \in AllWorkers |-> "claim"]

\* dbops.try_claim_queued_job(conn), whatever the caller's last call returned
ClaimCall(w) ==
    /\ ClaimStmt(w)
    /\ UNCHANGED <<db, new_count, max_retries, workers, log, env, cfg>>

\* conn.commit() of the caller's open transaction
CommitCall(w) ==
    /\ tx[w] # NoTx
    /\ db' = Committed(w)
    /\ tx' = [tx EXCEPT ![w] = NoTx]
    /\ UNCHANGED <<pc, job, new_count, max_retries, workers, log, env, cfg>>

NextClaim ==
    \/ \E w \in workers : ClaimCall(w)
    \/ \E w \in workers : CommitCall(w)

SpecClaim == InitClaim /\ [][NextClaim]_vars

\* ------------------------------------------------ load_config on its own
\* Values of the integer settings: some that int() accepts ...
IntegerValues ==
    {<<"7">>, <<" ", "1", "2", " ">>, <<"-", "1">>, <<"1", "_", "0">>}
\* ... and some that it rejects.
NotIntegerValues ==
    {<<>>, <<"a", "b", "c">>, <<"1", "x">>, <<"+">>, <<"_", "1">>, <<"1", ".", "5">>}
SettingValues == {Unset} \cup IntegerValues \cup NotIntegerValues

InitConfig ==
    /\ env \in [DATABASE_URL : {Unset, <<>>, <<"postgresql://u:p@h:5432/db">>},
                SUPABASE_DB_URL : {Unset, <<"postgresql://supabase">>},
                POSTGRES_URL : {Unset, <<"postgresql://postgres">>},
                WORKER_POLL_INTERVAL_MS : SettingValues,
                WORKER_MAX_RETRIES : SettingValues,
                WORKER_PROCESSING_TIMEOUT_MS : SettingValues,
                WORKER_USE_NOTIFY : {Unset, <<"1">>}]
    /\ cfg = NoConfig
    /\ db = NotTracked /\ tx = NotTracked /\ pc = NotTracked /\ job = NotTracked
    /\ new_count = NotTracked /\ log = NotTracked
    /\ max_retries = DEFAULT_MAX_RETRIES
    /\ workers = {}

\* cfg = load_config(), module ocr_worker.config
LoadConfigCall ==
    /\ cfg = NoConfig
    /\ cfg' = load_config(env)
    /\ UNCHANGED <<db, tx, pc, job, new_count, max_retries, workers, log, env>>

\* cfg = load_config(), module kiro_ocr_worker.config
KiroLoadConfigCall ==
    /\ cfg = NoConfig
    /\ cfg' = kiro_load_config(env)
    /\ UNCHANGED <<db, tx, pc, job, new_count, max_retries, workers, log, env>>

NextConfig ==
    \/ LoadConfigCall
    \/ KiroLoadConfigCall

SpecConfig == InitConfig /\ [][NextConfig]_vars

\* ------------------------- one worker that keeps running, storage never fails
\* The worker has loaded its configuration and connected; no statement
\* raises, nobody cancels the process, and the process is scheduled fairly.
\* process_job may succeed or raise at every attempt.
InitLive ==
    /\ InitRows(NQueued)
    /\ max_retries >= 1
    /\ workers = {1}
    /\ pc = [w \in AllWorkers |-> "claim"]

NextLive ==
    \/ \E w \in workers : TryClaim(w)
    \/ \E w \in workers : ProcessCompletes(w)
    \/ \E w \in workers : ProcessRaises(w)
    \/ \E w \in workers : IncrementRetry(w)
    \/ \E w \in workers : CommitDecision(w)
    \/ \E w \in workers : ListenForJobs(w)

SpecLive == InitLive /\ [][NextLive]_vars /\ WF_vars(NextLive)

\* ================================================================ claims
Rc(j) == COALESCE(db[j].retry_count)

\* Worker w is between the return of try_claim_queued_job, which gave it job j,
\* and the commit of j's settlement.
HoldsClaim(w, j) == job[w] = j /\ pc[w] \in {"process", "increment", "decide"}

\* The rows some caller has claimed: updated by an open transaction, or
\* committed as processing.
ClaimedRows ==
    {j \in Jobs : db[j].status = "processing" \/ \E w \in AllWorkers : tx[w][j] # NoWrite}

\* C1: completed and failed are terminal: once a job's committed status is
\* completed or failed, no step of any worker changes it.
C1_TerminalStatus ==
    [][\A j \in Jobs :
          db[j].status \in {"completed", "failed"} => db'[j].status = db[j].status]_vars

\* C2: at any instant at most one worker holds the claim on a given job, from
\* the return of try_claim_queued_job to the commit of the settlement.
C2_ExclusiveClaim ==
    \A j \in Jobs : \A w, v \in workers : HoldsClaim(w, j) /\ HoldsClaim(v, j) => w = v

\* C3: concurrent claim calls of N callers on M queued rows: a call never
\* blocks; a successful call returns a row no caller has claimed before, so
\* each success adds one row to the claimed ones (distinct jobs, at most M
\* successes); a call returns none exactly when all M rows have been claimed,
\* so it passes over rows locked by in-flight claims to the next queued row.
C3_DistinctClaims ==
    /\ [](\A w \in workers : ENABLED ClaimCall(w))
    /\ [][\A w \in workers : ClaimCall(w) =>
            /\ job'[w] = None <=> ClaimedRows = Jobs
            /\ job'[w] # None =>
                  /\ job'[w] \notin ClaimedRows
                  /\ ClaimedRows' = ClaimedRows \cup {job'[w]}]_vars

\* C3 witness: both rows are claimed, by different callers, the claims are
\* still in flight, and a further call has returned none.
C3_Witness ==
    /\ ClaimedRows = Jobs
    /\ \E w, v \in workers : w # v /\ tx[w][1] # NoWrite /\ tx[v][2] # NoWrite
    /\ \E u \in workers : pc[u] = "wait"

\* C4 as stated: a failed attempt on a job whose retry_count is below
\* max_retries leaves the job queued with retry_count increased by exactly 1.
C4_Original ==
    [][\A w \in workers : CommitDecision(w) /\ Rc(job[w]) < max_retries =>
          /\ db'[job[w]].status = "queued"
          /\ db'[job[w]].retry_count = Rc(job[w]) + 1]_vars

\* C4 amended: a failed attempt on a job whose retry_count + 1 is below
\* max_retries when the retry decision runs leaves the job queued, with
\* retry_count increased by exactly 1, when the decision commits.
C4_RequeueBelowMax ==
    [][\A w \in workers : CommitDecision(w) /\ Rc(job[w]) + 1 < max_retries =>
          /\ db'[job[w]].status = "queued"
          /\ db'[job[w]].retry_count = Rc(job[w]) + 1]_vars

\* C4 witness: a first failed attempt was settled by a requeue.
C4_Witness ==
    \E j \in Jobs :
        db[j].status = "queued" /\ db[j].retry_count = 1 /\ log[j] = <<"queued">>

\* C5: a retry decision whose incremented retry_count reaches max_retries
\* commits status failed; a failed job stays failed in every later step; and a
\* claim never returns a row whose status is failed.
C5_FailedStays ==
    /\ [][\A w \in workers :
            CommitDecision(w) /\ db'[job[w]].retry_count >= max_retries =>
               db'[job[w]].status = "failed"]_vars
    /\ [][\A j \in Jobs : db[j].status = "failed" => db'[j].status = "failed"]_vars
    /\ [][\A w \in workers :
            TryClaim(w) /\ job'[w] # None => db[job'[w]].status # "failed"]_vars

\* C5 witness: a job has failed with retry_count = max_retries and a later
\* loop iteration's claim has found nothing to select.
C5_Witness ==
    \E j \in Jobs : \E w \in workers :
        db[j].status = "failed" /\ db[j].retry_count = max_retries /\ pc[w] = "wait"

\* C6: with max_retries = 3 and one worker, every transition to failed is the
\* third settled failure of the job and follows two transitions to queued, and
\* three consecutive failures end in failed: the settlements of three
\* consecutive failures are queued, queued, failed.
C6_ThirdFailureFails ==
    max_retries = 3 =>
        \A j \in Jobs :
            /\ \A i \in 1..Len(log[j]) :
                  log[j][i] = "failed" => i = 3 /\ log[j][1] = "queued" /\ log[j][2] = "queued"
            /\ Len(log[j]) >= 3 /\ (\A i \in 1..3 : log[j][i] # "completed")
                  => SubSeq(log[j], 1, 3) = <<"queued", "queued", "failed">>

\* C6 witness: three failures of one job were settled.
C6_Witness ==
    \E j \in Jobs :
        max_retries = 3 /\ log[j] = <<"queued", "queued", "failed">>
                        /\ db[j].status = "failed"

\* C7: retry_count never decreases; a job whose retry_count is >= max_retries
\* never returns to queued; and no job with retry_count >= max_retries is
\* queued at all, except a row that has had no attempt settled yet under
\* max_retries = 0, where retry_count >= max_retries holds from its creation.
C7_RetryMonotone ==
    /\ [][\A j \in Jobs : COALESCE(db'[j].retry_count) >= Rc(j)]_vars
    /\ [][\A j \in Jobs : Rc(j) >= max_retries /\ db[j].status # "queued"
                             => db'[j].status # "queued"]_vars
    /\ [](\A j \in Jobs : Rc(j) >= max_retries /\ db[j].status = "queued"
                             => max_retries = 0 /\ Rc(j) = 0)

\* C7 witness: two workers' failed attempts on one job took retry_count past
\* max_retries.
C7_Witness == \E j \in Jobs : Rc(j) > max_retries

\* C8: when the retry-decision step fails at the storage layer, the job is
\* left in status processing and the worker goes on to the next iteration.
C8_LeftProcessing ==
    [][\A w \in workers : DecisionRaises(w) =>
          db'[job[w]].status = "processing" /\ pc'[w] = "claim"]_vars

\* C9: a worker process ends only by a configuration error at startup or by
\* cancellation.
C9_OnlyConfigOrCancel ==
    \A w \in workers : ~InLoop(w) /\ pc[w] # "load_config" =>
        pc[w] \in {"config_error", "stopped"}

\* C10: when LISTEN raises, the wait call returns normally and the loop goes
\* on to a claim attempt.
C10_ListenFallback ==
    [][\A w \in workers : ListenRaises(w) => pc'[w] = "claim"]_vars

\* The queued rows a claim of the only running worker can see.
QueuedRows == {j \in Jobs : db[j].status = "queued"}

\* C11: with one worker, a claim returns the queued row with the smallest
\* created_at; no settlement changes created_at; so a requeued job keeps its
\* place: no job with a later created_at is claimed or settled while an older
\* job is still queued.
C11_OldestFirst ==
    /\ [][\A w \in workers : TryClaim(w) /\ job'[w] # None =>
            /\ job'[w] \in QueuedRows
            /\ \A k \in QueuedRows : db[job'[w]].created_at <= db[k].created_at]_vars
    /\ [][\A j \in Jobs : db'[j].created_at = db[j].created_at]_vars
    /\ [](\A j, k \in Jobs :
            db[j].created_at < db[k].created_at /\ (log[k] # <<>> \/ job[1] = k)
               => db[j].status # "queued" \/ job[1] = j)

\* C11 witness: the older job was requeued twice and is claimed again while
\* the younger job is still queued and untouched.
C11_Witness ==
    /\ log[1] = <<"queued", "queued">>
    /\ job[1] = 1 /\ pc[1] = "process"
    /\ db[2].status = "queued" /\ log[2] = <<>>

\* C12: in every committed state a job has a stored result only if it is
\* completed and a stored error_message only if it is failed.
C12_ResultOnlyWhenCompleted ==
    \A j \in Jobs :
        /\ db[j].result => db[j].status = "completed"
        /\ db[j].error_message => db[j].status = "failed"

\* The committed retry decisions of job j: each followed one increment_retry call.
CommittedIncrements(j) ==
    Cardinality({i \in 1..Len(log[j]) : log[j][i] # "completed"})

\* C13: no increment is lost: the stored retry_count (NULL counted as 0) equals
\* the number of committed increment_retry calls on the job, whichever workers
\* made them; each call returns the value it wrote, one more than the
\* committed value, and that value is the one its commit stores.
C13_NoLostIncrement ==
    /\ [](\A j \in Jobs : Rc(j) = CommittedIncrements(j))
    /\ [][\A w \in workers : IncrementRetry(w) =>
            /\ new_count'[w] = tx'[w][job[w]].retry_count
            /\ new_count'[w] = Rc(job[w]) + 1]_vars
    /\ [][\A w \in workers : CommitDecision(w) =>
            db'[job[w]].retry_count = new_count[w]]_vars

\* C13 witness: one worker has incremented a job's counter and not yet
\* committed, while another worker's increment_retry on the same job waits;
\* an earlier increment is already committed.
C13_Witness ==
    \E w, v \in workers :
        /\ w # v /\ job[w] = job[v] /\ job[w] # None
        /\ pc[w] = "decide" /\ pc[v] = "increment"
        /\ Rc(job[w]) >= 1

\* sys.exit(run()): 0 after return 0, 1 after an uncaught exception, Null
\* while the process runs.
ExitStatus(w) ==
    IF pc[w] = "stopped" THEN 0
    ELSE IF pc[w] \in {"crashed", "config_error"} THEN 1
    ELSE Null

\* C14: a cancellation signal can arrive at every point of the worker loop
\* (claiming, processing, settling - also while waiting for a row lock - and
\* waiting); run() then ends with exit status 0, its connection is released
\* (its open transaction and row locks are gone) and the committed table is
\* as it was.
C14_CancelExitsCleanly ==
    /\ [](\A w \in workers : InLoop(w) => ENABLED Cancel(w))
    /\ [][\A w \in workers : Cancel(w) =>
            /\ ExitStatus(w)' = 0
            /\ tx'[w] = NoTx
            /\ db' = db]_vars
    /\ [][\A w \in workers : pc[w] = "stopped" => pc'[w] = "stopped"]_vars

\* C14 witness: a worker was cancelled while another worker was settling a
\* failed attempt, holding the row lock.
C14_Witness ==
    \E w, v \in workers :
        /\ ExitStatus(w) = 0
        /\ pc[v] = "decide" /\ tx[v][job[v]] # NoWrite

\* C17: the wait call is entered only by a claim attempt that returned no job
\* (no queued row was visible to it), and when the wait call returns the
\* worker is at the claim attempt: between two waits there is a claim attempt.
C17_WaitOnlyWhenDrained ==
    /\ [][\A w \in workers : pc'[w] = "wait" /\ pc[w] # "wait" =>
            /\ pc[w] = "claim"
            /\ job'[w] = None
            /\ ClaimCandidates(w) = {}]_vars
    /\ [][\A w \in workers : ListenForJobs(w) => pc'[w] = "claim"]_vars
    /\ [][\A w \in workers : pc[w] = "wait" /\ pc'[w] # "wait" =>
            pc'[w] \in {"claim", "stopped", "crashed"}]_vars

\* C17 witness: the worker waits after it drained the queue: every job is
\* settled for good.
C17_Witness ==
    /\ pc[1] = "wait"
    /\ \A j \in Jobs : db[j].status \in {"completed", "failed"}

\* C16: the claim commits in a transaction of its own before the settlement:
\* whenever a worker commits a completion or a retry decision, the committed
\* row already shows its claim (status processing), and while the worker
\* processes the job its connection has no open transaction on the row.
C16_ClaimCommitsFirst ==
    /\ [][\A w \in workers : ProcessCompletes(w) \/ CommitDecision(w) =>
            db[job[w]].status = "processing"]_vars
    /\ [](\A w \in workers : pc[w] = "process" => tx[w][job[w]] = NoWrite)

\* C19: when a worker stops (cancellation, crash, lost connection) between
\* its claim and the commit of its settlement, the committed row of the job is
\* not changed by the stop, has status queued and is not locked by the
\* stopped worker.
C19_StopLeavesQueued ==
    [][\A w \in workers : \A j \in Jobs :
          HoldsClaim(w, j) /\ pc'[w] \in {"stopped", "crashed"} =>
              /\ db'[j] = db[j]
              /\ db'[j].status = "queued"
              /\ tx'[w][j] = NoWrite]_vars

\* C20: with max_retries >= 1 and jobs created with retry_count 0 (or NULL),
\* the committed retry_count of a job never exceeds max_retries.
C20_RetryBounded ==
    max_retries >= 1 => \A j \in Jobs : Rc(j) <= max_retries

\* the integer settings of c are the defaults wherever the environment has
\* the variable unset or holding a value that is not an integer
DefaultsReturned(c) ==
    /\ env.WORKER_POLL_INTERVAL_MS \in {Unset} \cup NotIntegerValues
          => c.poll_interval_ms = 5000
    /\ env.WORKER_MAX_RETRIES \in {Unset} \cup NotIntegerValues
          => c.max_retries = 3
    /\ env.WORKER_PROCESSING_TIMEOUT_MS \in {Unset} \cup NotIntegerValues
          => c.processing_timeout_ms = 60000

\* the connection string of ocr_worker.config: the first non-empty one of
\* DATABASE_URL, SUPABASE_DB_URL, POSTGRES_URL (<<>>: none is set)
ConnectionString ==
    IF env.DATABASE_URL \notin {Unset, <<>>} THEN env.DATABASE_URL
    ELSE IF env.SUPABASE_DB_URL \notin {Unset, <<>>} THEN env.SUPABASE_DB_URL
    ELSE IF env.POSTGRES_URL \notin {Unset, <<>>} THEN env.POSTGRES_URL
    ELSE <<>>

\* C15: when the connection string is set, load_config (of either module)
\* does not raise, returns the connection string unchanged, and returns the
\* default 5000 / 3 / 60000 for every integer setting that is unset or not
\* parseable as an integer.
C15_ConfigDefaults ==
    /\ [][LoadConfigCall /\ ConnectionString # <<>> =>
            /\ cfg'.raised = ""
            /\ cfg'.database_url = ConnectionString
            /\ DefaultsReturned(cfg')]_vars
    /\ [][KiroLoadConfigCall /\ env.DATABASE_URL \notin {Unset, <<>>} =>
            /\ cfg'.raised = ""
            /\ cfg'.database_url = env.DATABASE_URL
            /\ DefaultsReturned(cfg')]_vars

\* C15 witness: load_config returned with one setting unset, one that is not
\* a number and one empty, and all three are the defaults.
C15_Witness ==
    /\ cfg.raised = ""
    /\ env.WORKER_POLL_INTERVAL_MS = Unset
    /\ env.WORKER_MAX_RETRIES = <<"a", "b", "c">>
    /\ env.WORKER_PROCESSING_TIMEOUT_MS = <<>>
    /\ cfg.poll_interval_ms = 5000 /\ cfg.max_retries = 3
    /\ cfg.processing_timeout_ms = 60000
    /\ cfg.database_url = env.DATABASE_URL

\* C18: one worker, max_retries >= 1, no storage failure, fair scheduling:
\* whatever process_job does at each attempt, eventually every job has
\* status completed or failed.
C18_EventuallySettled ==
    <>(\A j \in Jobs : db[j].status \in {"completed", "failed"})

\* C18 witness: the queue is drained after the older job failed at its last
\* allowed attempt and the younger one completed after a retry.
C18_Witness ==
    /\ pc[1] = "wait"
    /\ db[1].status = "failed" /\ Rc(1) = max_retries /\ max_retries = 3
    /\ db[2].status = "completed" /\ Rc(2) >= 1

====
